---- MODULE Spec2Model ----
(***************************************************************************)
(* A model of the image kernels of src/src/your_code_here.h: the parallel  *)
(* min/max reduction and the normalisation built on it, the forward        *)
(* gradient, the backward divergence, the gradient compositor and the      *)
(* Jacobi Poisson solver.                                                  *)
(*                                                                         *)
(* An Image<T> is a record [width, height, data]; data is the row-major    *)
(* sample vector, so that data[offset + 1] is the C++ data[offset].        *)
(* Samples are exact fixed-point numbers: the integer n stands for the     *)
(* float n / Scale.  Every sample the model produces is a dyadic rational  *)
(* that float arithmetic represents exactly, so no rounding is modelled.   *)
(*                                                                         *)
(* The loops under "#pragma omp parallel for" are executed by the worker   *)
(* threads of Threads; a thread takes one loop iteration at a time and     *)
(* runs its body statement by statement, interleaved with the others.      *)
(***************************************************************************)
EXTENDS Integers, Sequences, FiniteSets, TLC

\* ------------------------------------------------------------------ bounds

\* Width and height of the scalar field the Poisson solver works on.
PW == 4
PH == 3
\* Largest num_iters the solver is called with.
MaxIters == 2
\* Size of the OpenMP thread team.
NumThreads == 2

\* Width and height of the colour field given to normalizeRGBImage.
MW == 2
MH == 2
\* Width and height of the scalar field given to getGradients, and of the mask
\* given to copySourceGradientsToTarget.
GW == 3
GH == 3
\* bilateralFilter: the field is BW x BH, and a float has a significand of
\* MantissaBits bits.
BW == 3
BH == 3
MantissaBits == 12

Threads == 1..NumThreads

\* ----------------------------------------------------------------- helpers

RECURSIVE Pow4(_)
Pow4(n) == IF n = 0 THEN 1 ELSE 4 * Pow4(n - 1)

\* One unit of the fixed-point samples: 1.0f is Scale.  Every thread reads
\* the shared I and writes the shared I_next, so a sample of I went through
\* at most one 0.25f * s per completed swap, and every 0.25f * s the solver
\* computes within MaxIters iterations is exact at this resolution.
Scale == Pow4(MaxIters)

\* 0.25f * s, exact on the multiples of 4 the solver produces.
Quarter(s) == s \div 4

Max2(a, b) == IF a > b THEN a ELSE b

\* Image<T>(width, height): a field of value-initialised (zero) samples.
NewImage(w, h) == [width |-> w, height |-> h, data |-> [k \in 1..(w * h) |-> 0]]

\* getImageOffset(image, x, y)
getImageOffset(img, x, y) == y * img.width + x

\* image.data[getImageOffset(image, x, y)]
At(img, x, y) == img.data[getImageOffset(img, x, y) + 1]

\* The column and the row of the sample the nested y/x loops visit at step p.
XOf(img, p) == p % img.width
YOf(img, p) == p \div img.width

\* ------------------------------------------------------------------- state

VARIABLES
    \* solvePoisson: its arguments,
    initial_solution, divergence_G, num_iters,
    \* the two solution buffers,
    I, I_next,
    \* for each sample of I and of I_next the loop iteration that wrote it
    \* (-1: written before the loop), kept beside the buffers and swapped
    \* with them,
    wI, wNext,
    \* the next value of iter the parallel loop hands out, the iterations whose
    \* body has run to its end,
    nextIter, completed,
    \* and for each thread: where it is in the loop body, its iter, the sample
    \* its y/x loops are at, its local new_value, the border sample it has read
    \* and not yet stored, and the latest iteration among the writers of the
    \* samples its last statement read.
    pc, iter, pos, new_value, copied, obs,
    \* "run" until solvePoisson returns, then "done" with the returned field,
    phase, result,
    \* and whether this run records the history variables wI, wNext and obs.
    traced,
    \* normalizeRGBImage: its argument,
    image,
    \* getRGBImageMinMax's shared min_val and max_val, the next row y its
    \* parallel loop hands out,
    min_val, max_val, nextRow,
    \* for each thread: where it is in the loop body, its row y and column x,
    \* and its locals min_rgb and max_rgb,
    mpc, my, mx, min_rgb, max_rgb,
    \* "minmax" while getRGBImageMinMax runs, "normalize" once it has returned
    \* min_max, "done" when normalizeRGBImage has returned nresult.
    mphase, min_max, nresult,
    \* getGradients and getDivergence: the scalar field, its gradient pair and
    \* the divergence of that pair; gphase is "field", then "gradients" once
    \* getGradients has returned, then "divergence".
    field, grad, div_G, gphase,
    \* copySourceGradientsToTarget: its arguments and the pair it returns;
    \* cphase is "call" and then "done".
    source, target, source_mask, merged, cphase,
    \* bilateralFilter: its arguments, the table of spatial weights, the
    \* result so far and the number of pixels the y/x loops have done; K and
    \* filteredValue as the kernel loops left them for the last pixel, and the
    \* neighbours (nx, ny) those loops accumulated for it; bphase is "weights",
    \* then "pixels", then "done" (or "aborted" by the assert).
    H, size, space_sigma, range_sigma, spatialWeights, filtered, done,
    K, filteredValue, taken, bphase

varsP == <<initial_solution, divergence_G, num_iters, I, I_next, wI, wNext,
           nextIter, completed, pc, iter, pos, new_value, copied, obs, phase,
           result, traced>>

varsM == <<image, min_val, max_val, nextRow, mpc, my, mx, min_rgb, max_rgb,
           mphase, min_max, nresult>>

varsG == <<field, grad, div_G, gphase>>

varsC == <<source, target, source_mask, merged, cphase>>

varsB == <<H, size, space_sigma, range_sigma, spatialWeights, filtered, done,
           K, filteredValue, taken, bphase>>

vars == <<varsP, varsM, varsG, varsC, varsB>>

\* What a step of one kernel leaves alone: the state of the other kernels.
notP == <<varsM, varsG, varsC, varsB>>
notM == <<varsP, varsG, varsC, varsB>>
notG == <<varsP, varsM, varsC, varsB>>
notC == <<varsP, varsM, varsG, varsB>>
notB == <<varsP, varsM, varsG, varsC>>

\* ------------------------------------------------------------ solvePoisson

\* The test that guards the boundary handling of the solver (and the same
\* test comparing x with the width itself, so that no x passes it).
IsBorderOffByOne(img, x, y) ==
    x = 0 \/ y = 0 \/ x = img.width \/ y = img.height - 1
IsBorder(img, x, y) ==
    x = 0 \/ y = 0 \/ x = img.width - 1 \/ y = img.height - 1

\* The right-hand side of the update rule at (x, y).
JacobiValue(cur, div, x, y) ==
    Quarter(At(cur, x + 1, y) + At(cur, x - 1, y)
            + At(cur, x, y + 1) + At(cur, x, y - 1) - At(div, x, y))

\* The initial guesses and the divergence fields solvePoisson is called with.
\* The divergence is two samples larger per axis than the guess, as
\* getDivergence(getGradients(.)) of a field of the guess's size is.
GuessField(a, b) ==
    [width |-> PW, height |-> PH,
     data |-> [k \in 1..(PW * PH) |-> Scale * (((a * k + b) % 3) + 1)]]
DivField(c) ==
    [width |-> PW + 2, height |-> PH + 2,
     data |-> [k \in 1..((PW + 2) * (PH + 2)) |-> Scale * c * ((k % 3) - 1)]]
Guesses == {GuessField(a, b) : a \in {0, 1}, b \in {0, 1}}
Divergences == {DivField(c) : c \in {0, 1, 4}}

\* The entry of solvePoisson, up to the parallel loop; tr says whether the run
\* records the history variables.
EnterPoisson(tr) ==
    /\ initial_solution \in Guesses
    /\ divergence_G \in Divergences
    /\ num_iters \in 0..MaxIters
    /\ I = initial_solution
    /\ I_next = NewImage(I.width, I.height)
    /\ wI = [k \in 1..(PW * PH) |-> -1]
    /\ wNext = [k \in 1..(PW * PH) |-> -1]
    /\ nextIter = 0
    /\ completed = {}
    /\ pc = [t \in Threads |-> "idle"]
    /\ iter = [t \in Threads |-> 0]
    /\ pos = [t \in Threads |-> 0]
    /\ new_value = [t \in Threads |-> 0]
    /\ copied = [t \in Threads |-> 0]
    /\ obs = [t \in Threads |-> -1]
    /\ phase = "run"
    /\ result = NewImage(0, 0)
    /\ traced = tr

\* Where a thread goes after the statement that ends the inner loop body at
\* sample p: on to the next sample, or out of the y/x loops to the swap.
AfterPixel(p) == IF p + 1 < I.width * I.height THEN "pixel" ELSE "swap"

\* A thread of the team takes the next iteration of the parallel loop.
StartIteration(t) ==
    /\ phase = "run"
    /\ pc[t] = "idle"
    /\ \A u \in Threads : u < t => pc[u] # "idle"
    /\ nextIter < num_iters
    /\ iter' = [iter EXCEPT ![t] = nextIter]
    /\ nextIter' = nextIter + 1
    /\ pos' = [pos EXCEPT ![t] = 0]
    /\ obs' = [obs EXCEPT ![t] = -1]
    /\ pc' = [pc EXCEPT ![t] = IF I.width * I.height > 0 THEN "pixel" ELSE "swap"]
    /\ UNCHANGED <<initial_solution, divergence_G, num_iters, I, I_next, wI,
                   wNext, completed, new_value, copied, phase, result, traced,
                   notP>>

\* The read of "I_next.data[offset] = I.data[offset];": the sample of I.
LoadBorder(t) ==
    /\ pc[t] = "pixel"
    /\ LET x == XOf(I, pos[t])
           y == YOf(I, pos[t])
           off == getImageOffset(I, x, y)
       IN /\ IsBorder(I, x, y)
          /\ copied' = [copied EXCEPT ![t] = I.data[off + 1]]
          /\ obs' = IF traced THEN [obs EXCEPT ![t] = wI[off + 1]] ELSE obs
    /\ pc' = [pc EXCEPT ![t] = "store"]
    /\ UNCHANGED <<initial_solution, divergence_G, num_iters, I, I_next, wI,
                   wNext, nextIter, completed, iter, pos, new_value, phase,
                   result, traced, notP>>

\* Its write, into the I_next of that moment; continue;
StoreBorder(t) ==
    /\ pc[t] = "store"
    /\ LET off == getImageOffset(I, XOf(I, pos[t]), YOf(I, pos[t]))
       IN /\ I_next' = [I_next EXCEPT !.data[off + 1] = copied[t]]
          /\ wNext' = IF traced THEN [wNext EXCEPT ![off + 1] = iter[t]] ELSE wNext
    /\ pc' = [pc EXCEPT ![t] = AfterPixel(pos[t])]
    /\ pos' = [pos EXCEPT ![t] = pos[t] + 1]
    /\ UNCHANGED <<initial_solution, divergence_G, num_iters, I, wI, nextIter,
                   completed, iter, new_value, copied, obs, phase, result,
                   traced, notP>>

\* float new_value = 0.25f * (...);
ComputeUpdate(t) ==
    /\ pc[t] = "pixel"
    /\ LET x == XOf(I, pos[t])
           y == YOf(I, pos[t])
       IN /\ ~IsBorder(I, x, y)
          /\ new_value' = [new_value EXCEPT ![t] = JacobiValue(I, divergence_G, x, y)]
          /\ obs' = IF traced
                     THEN [obs EXCEPT ![t] =
                              Max2(Max2(wI[getImageOffset(I, x + 1, y) + 1],
                                        wI[getImageOffset(I, x - 1, y) + 1]),
                                   Max2(wI[getImageOffset(I, x, y + 1) + 1],
                                        wI[getImageOffset(I, x, y - 1) + 1]))]
                     ELSE obs
    /\ pc' = [pc EXCEPT ![t] = "write"]
    /\ UNCHANGED <<initial_solution, divergence_G, num_iters, I, I_next, wI,
                   wNext, nextIter, completed, iter, pos, copied, phase, result,
                   traced, notP>>

\* I_next.data[offset] = new_value;
WriteUpdate(t) ==
    /\ pc[t] = "write"
    /\ LET off == getImageOffset(I, XOf(I, pos[t]), YOf(I, pos[t]))
       IN /\ I_next' = [I_next EXCEPT !.data[off + 1] = new_value[t]]
          /\ wNext' = IF traced THEN [wNext EXCEPT ![off + 1] = iter[t]] ELSE wNext
    /\ pc' = [pc EXCEPT ![t] = AfterPixel(pos[t])]
    /\ pos' = [pos EXCEPT ![t] = pos[t] + 1]
    /\ UNCHANGED <<initial_solution, divergence_G, num_iters, I, wI, nextIter,
                   completed, iter, new_value, copied, obs, phase, result, traced,
                   notP>>

\* std::swap(I, I_next); and the end of the loop body.
SwapBuffers(t) ==
    /\ pc[t] = "swap"
    /\ I' = I_next
    /\ I_next' = I
    /\ wI' = wNext
    /\ wNext' = wI
    /\ completed' = completed \cup {iter[t]}
    /\ pc' = [pc EXCEPT ![t] = "idle"]
    /\ UNCHANGED <<initial_solution, divergence_G, num_iters, nextIter, iter,
                   pos, new_value, copied, obs, phase, result, traced,
                   notP>>

\* The barrier that ends the parallel loop, and "return I;".
ReturnSolution ==
    /\ phase = "run"
    /\ nextIter >= num_iters
    /\ \A t \in Threads : pc[t] = "idle"
    /\ phase' = "done"
    /\ result' = I
    /\ UNCHANGED <<initial_solution, divergence_G, num_iters, I, I_next, wI,
                   wNext, nextIter, completed, pc, iter, pos, new_value, copied,
                   obs, traced, notP>>

NextPoisson ==
    \/ \E t \in Threads : StartIteration(t)
    \/ \E t \in Threads : LoadBorder(t)
    \/ \E t \in Threads : StoreBorder(t)
    \/ \E t \in Threads : ComputeUpdate(t)
    \/ \E t \in Threads : WriteUpdate(t)
    \/ \E t \in Threads : SwapBuffers(t)
    \/ ReturnSolution

\* The solver before any call of it: what the other kernels' runs leave it at.
IdlePoisson ==
    /\ initial_solution = NewImage(0, 0)
    /\ divergence_G = NewImage(0, 0)
    /\ num_iters = 0
    /\ I = NewImage(0, 0)
    /\ I_next = NewImage(0, 0)
    /\ wI = <<>>
    /\ wNext = <<>>
    /\ nextIter = 0
    /\ completed = {}
    /\ pc = [t \in Threads |-> "idle"]
    /\ iter = [t \in Threads |-> 0]
    /\ pos = [t \in Threads |-> 0]
    /\ new_value = [t \in Threads |-> 0]
    /\ copied = [t \in Threads |-> 0]
    /\ obs = [t \in Threads |-> -1]
    /\ phase = "off"
    /\ result = NewImage(0, 0)
    /\ traced = FALSE

\* ------------------------------------- getRGBImageMinMax, normalizeRGBImage

\* auto min_val = 100.0f; auto max_val = -1.0f;
MinValInit == 100
MaxValInit == -1

Min2(a, b) == IF a < b THEN a ELSE b

\* std::max(std::max(val.r, val.g), val.b) and its std::min counterpart.
MaxRGB(val) == Max2(Max2(val[1], val[2]), val[3])
MinRGB(val) == Min2(Min2(val[1], val[2]), val[3])

RECURSIVE GCD(_, _)
GCD(a, b) == IF b = 0 THEN a ELSE GCD(b, a % b)
Abs(a) == IF a < 0 THEN -a ELSE a

\* The float a / b of two integer-valued floats: NaN for 0 / 0, an infinity for
\* any other division by zero, and otherwise the quotient, kept as the reduced
\* fraction num / den with den > 0 (so that 0 is 0 / 1 and 1 is 1 / 1).
FDiv(a, b) ==
    IF b = 0
    THEN [kind |-> IF a = 0 THEN "nan" ELSE "inf", num |-> a, den |-> 0]
    ELSE LET g == GCD(Abs(a), Abs(b))
             sg == IF b < 0 THEN -1 ELSE 1
         IN [kind |-> "finite", num |-> sg * (a \div g), den |-> sg * (b \div g)]

\* glm::vec3 I_norm = (val - min_max.x) / (min_max.y - min_max.x);
NormalizePixel(val, mm) ==
    [c \in 1..3 |-> FDiv(val[c] - mm[1], mm[2] - mm[1])]

\* The pixels of the colour fields normalizeRGBImage is called with.
Pixels == {<<3, 3, 3>>, <<200, 200, 200>>, <<-5, -5, -5>>, <<5, 2, 7>>,
           <<150, 300, 120>>}
Images == {[width |-> MW, height |-> MH, data |-> d] :
              d \in [1..(MW * MH) -> Pixels]}

StartNormalize ==
    /\ image \in Images
    /\ min_val = MinValInit
    /\ max_val = MaxValInit
    /\ nextRow = 0
    /\ mpc = [t \in Threads |-> "idle"]
    /\ my = [t \in Threads |-> 0]
    /\ mx = [t \in Threads |-> 0]
    /\ min_rgb = [t \in Threads |-> 0]
    /\ max_rgb = [t \in Threads |-> 0]
    /\ mphase = "minmax"
    /\ min_max = <<0, 0>>
    /\ nresult = <<>>

\* A thread of the team takes the next row y of the parallel loop.
StartRow(t) ==
    /\ mphase = "minmax"
    /\ mpc[t] = "idle"
    /\ \A u \in Threads : u < t => mpc[u] # "idle"
    /\ nextRow < image.height
    /\ my' = [my EXCEPT ![t] = nextRow]
    /\ nextRow' = nextRow + 1
    /\ mx' = [mx EXCEPT ![t] = 0]
    /\ mpc' = [mpc EXCEPT ![t] = IF image.width > 0 THEN "testmin" ELSE "idle"]
    /\ UNCHANGED <<image, min_val, max_val, min_rgb, max_rgb, mphase, min_max,
                   nresult,
                   notM>>

\* pos, val, max_rgb and min_rgb of the pixel, and "if (min_rgb < min_val)".
TestMin(t) ==
    /\ mpc[t] = "testmin"
    /\ LET val == At(image, mx[t], my[t])
       IN /\ max_rgb' = [max_rgb EXCEPT ![t] = MaxRGB(val)]
          /\ min_rgb' = [min_rgb EXCEPT ![t] = MinRGB(val)]
          /\ mpc' = [mpc EXCEPT ![t] =
                 IF MinRGB(val) < min_val THEN "setmin" ELSE "testmax"]
    /\ UNCHANGED <<image, min_val, max_val, nextRow, my, mx, mphase, min_max,
                   nresult,
                   notM>>

\* min_val = min_rgb;
SetMin(t) ==
    /\ mpc[t] = "setmin"
    /\ min_val' = min_rgb[t]
    /\ mpc' = [mpc EXCEPT ![t] = "testmax"]
    /\ UNCHANGED <<image, max_val, nextRow, my, mx, min_rgb, max_rgb, mphase,
                   min_max, nresult,
                   notM>>

\* Where a thread goes after the last statement of the x loop's body.
AfterColumn(x) == IF x + 1 < image.width THEN "testmin" ELSE "idle"

\* "if (max_rgb > max_val)", and the end of the body when it is false.
TestMax(t) ==
    /\ mpc[t] = "testmax"
    /\ IF max_rgb[t] > max_val
       THEN /\ mpc' = [mpc EXCEPT ![t] = "setmax"]
            /\ mx' = mx
       ELSE /\ mpc' = [mpc EXCEPT ![t] = AfterColumn(mx[t])]
            /\ mx' = [mx EXCEPT ![t] = mx[t] + 1]
    /\ UNCHANGED <<image, min_val, max_val, nextRow, my, min_rgb, max_rgb,
                   mphase, min_max, nresult,
                   notM>>

\* max_val = max_rgb; and the end of the body.
SetMax(t) ==
    /\ mpc[t] = "setmax"
    /\ max_val' = max_rgb[t]
    /\ mpc' = [mpc EXCEPT ![t] = AfterColumn(mx[t])]
    /\ mx' = [mx EXCEPT ![t] = mx[t] + 1]
    /\ UNCHANGED <<image, min_val, nextRow, my, min_rgb, max_rgb, mphase,
                   min_max, nresult,
                   notM>>

\* The barrier that ends the parallel loop, and
\* "return glm::vec2(min_val, max_val);" into normalizeRGBImage's min_max.
ReturnMinMax ==
    /\ mphase = "minmax"
    /\ nextRow >= image.height
    /\ \A t \in Threads : mpc[t] = "idle"
    /\ min_max' = <<min_val, max_val>>
    /\ mphase' = "normalize"
    /\ UNCHANGED <<image, min_val, max_val, nextRow, mpc, my, mx, min_rgb,
                   max_rgb, nresult,
                   notM>>

\* The sequential loop of normalizeRGBImage and its return.
NormalizeImage ==
    /\ mphase = "normalize"
    /\ nresult' = [width |-> image.width, height |-> image.height,
                   data |-> [k \in 1..(image.width * image.height) |->
                                NormalizePixel(image.data[k], min_max)]]
    /\ mphase' = "done"
    /\ UNCHANGED <<image, min_val, max_val, nextRow, mpc, my, mx, min_rgb,
                   max_rgb, min_max,
                   notM>>

NextNormalize ==
    \/ \E t \in Threads : StartRow(t)
    \/ \E t \in Threads : TestMin(t)
    \/ \E t \in Threads : SetMin(t)
    \/ \E t \in Threads : TestMax(t)
    \/ \E t \in Threads : SetMax(t)
    \/ ReturnMinMax
    \/ NormalizeImage

IdleNormalize ==
    /\ image = NewImage(0, 0)
    /\ min_val = MinValInit
    /\ max_val = MaxValInit
    /\ nextRow = 0
    /\ mpc = [t \in Threads |-> "idle"]
    /\ my = [t \in Threads |-> 0]
    /\ mx = [t \in Threads |-> 0]
    /\ min_rgb = [t \in Threads |-> 0]
    /\ max_rgb = [t \in Threads |-> 0]
    /\ mphase = "off"
    /\ min_max = <<0, 0>>
    /\ nresult = <<>>

\* ------------------------------------------------ getGradients, getDivergence

\* ImageGradient({w, h}, {w, h}): a pair of zeroed fields.
NewGradient(w, h) == [dx |-> NewImage(w, h), dy |-> NewImage(w, h)]

\* The dx and the dy getGradients computes at (x, y) of the field.
GradDx(img, x, y) ==
    IF x + 1 < img.width THEN At(img, x + 1, y) - At(img, x, y) ELSE 0
GradDy(img, x, y) ==
    IF y + 1 < img.height THEN At(img, x, y + 1) - At(img, x, y) ELSE 0

\* The y/x loops of getGradients from their step p on, g the pair so far.
RECURSIVE GradientLoop(_, _, _)
GradientLoop(img, g, p) ==
    IF p >= img.width * img.height
    THEN g
    ELSE LET x == XOf(img, p)
             y == YOf(img, p)
             gradOffset == getImageOffset(g.dx, x, y)
         IN GradientLoop(img,
                [dx |-> [g.dx EXCEPT !.data[gradOffset + 1] = GradDx(img, x, y)],
                 dy |-> [g.dy EXCEPT !.data[gradOffset + 1] = GradDy(img, x, y)]],
                p + 1)

getGradients(img) ==
    GradientLoop(img, NewGradient(img.width + 1, img.height + 1), 0)

\* div_x and div_y of getDivergence at (x, y) (and div_x subtracting the
\* sample at x itself in place of the one at x - 1).
DivXUnshifted(gradients, x, y) ==
    At(gradients.dx, x, y)
    - (IF x > 0 THEN At(gradients.dx, x, y) ELSE 0)
DivX(gradients, x, y) ==
    At(gradients.dx, x, y)
    - (IF x > 0 THEN At(gradients.dx, x - 1, y) ELSE 0)
DivY(gradients, x, y) ==
    At(gradients.dy, x, y)
    - (IF y > 0 THEN At(gradients.dy, x, y - 1) ELSE 0)

\* The loops of getDivergence, y below gradients.dy.height and x below
\* gradients.dx.width, from their step p on; d is div_G so far.
RECURSIVE DivergenceLoop(_, _, _)
DivergenceLoop(gradients, d, p) ==
    IF p >= gradients.dx.width * gradients.dy.height
    THEN d
    ELSE LET x == p % gradients.dx.width
             y == p \div gradients.dx.width
         IN DivergenceLoop(gradients,
                [d EXCEPT !.data[getImageOffset(d, x, y) + 1] =
                    DivX(gradients, x, y) + DivY(gradients, x, y)],
                p + 1)

getDivergence(gradients) ==
    DivergenceLoop(gradients,
        NewImage(gradients.dx.width + 1, gradients.dx.height + 1), 0)

\* The scalar fields getGradients is called with: every field of samples 0
\* and s, for the scales s of FieldScales.
FieldScales == {1, -3}
Fields == {[width |-> GW, height |-> GH,
            data |-> [k \in 1..(GW * GH) |-> s * b[k]]] :
              s \in FieldScales, b \in [1..(GW * GH) -> {0, 1}]}

StartGradient ==
    /\ field \in Fields
    /\ grad = NewGradient(0, 0)
    /\ div_G = NewImage(0, 0)
    /\ gphase = "field"

\* grad = getGradients(field)
CallGetGradients ==
    /\ gphase = "field"
    /\ grad' = getGradients(field)
    /\ gphase' = "gradients"
    /\ UNCHANGED <<field, div_G, notG>>

\* div_G = getDivergence(grad)
CallGetDivergence ==
    /\ gphase = "gradients"
    /\ div_G' = getDivergence(grad)
    /\ gphase' = "divergence"
    /\ UNCHANGED <<field, grad, notG>>

NextGradient ==
    \/ CallGetGradients
    \/ CallGetDivergence

IdleGradient ==
    /\ field = NewImage(0, 0)
    /\ grad = NewGradient(0, 0)
    /\ div_G = NewImage(0, 0)
    /\ gphase = "off"

\* ----------------------------------------------- copySourceGradientsToTarget

\* Mask samples are in tenths: 5 is the 0.5 of "mask_val > 0.5".
Half == 5

\* (m > 0.5)
InSource(m) == m > Half

\* The dx and the dy the loop body leaves in result at (x, y): the choice
\* between source and target, then the four boundary tests in the order of
\* the code, each overwriting what the earlier statements stored (and the dx
\* of a body without the test of the right neighbour, and the dy of a body
\* whose source branch stores the source's dx in both components).
MergedDxLeftOnly(src, tgt, mask, gradOffset, x, y) ==
    LET mask_val == At(mask, x, y)
        chosen == IF InSource(mask_val)
                  THEN src.dx.data[gradOffset + 1]
                  ELSE tgt.dx.data[gradOffset + 1]
    IN IF x > 0 /\ InSource(mask_val) # InSource(At(mask, x - 1, y))
       THEN 0 ELSE chosen
MergedDx(src, tgt, mask, gradOffset, x, y) ==
    LET mask_val == At(mask, x, y)
        chosen == IF InSource(mask_val)
                  THEN src.dx.data[gradOffset + 1]
                  ELSE tgt.dx.data[gradOffset + 1]
        afterLeft == IF x > 0 /\ InSource(mask_val) # InSource(At(mask, x - 1, y))
                     THEN 0 ELSE chosen
    IN IF x < mask.width - 1 /\ InSource(mask_val) # InSource(At(mask, x + 1, y))
       THEN 0 ELSE afterLeft
MergedDyCopiesDx(src, tgt, mask, gradOffset, x, y) ==
    LET mask_val == At(mask, x, y)
        chosen == IF InSource(mask_val)
                  THEN src.dx.data[gradOffset + 1]
                  ELSE tgt.dy.data[gradOffset + 1]
        afterDown == IF y > 0 /\ InSource(mask_val) # InSource(At(mask, x, y - 1))
                     THEN 0 ELSE chosen
    IN IF y < mask.height - 1 /\ InSource(mask_val) # InSource(At(mask, x, y + 1))
       THEN 0 ELSE afterDown
MergedDy(src, tgt, mask, gradOffset, x, y) ==
    LET mask_val == At(mask, x, y)
        chosen == IF InSource(mask_val)
                  THEN src.dy.data[gradOffset + 1]
                  ELSE tgt.dy.data[gradOffset + 1]
        afterDown == IF y > 0 /\ InSource(mask_val) # InSource(At(mask, x, y - 1))
                     THEN 0 ELSE chosen
    IN IF y < mask.height - 1 /\ InSource(mask_val) # InSource(At(mask, x, y + 1))
       THEN 0 ELSE afterDown

\* The y/x loops over the mask from their step p on, r the result so far.
RECURSIVE MergeLoop(_, _, _, _, _)
MergeLoop(src, tgt, mask, r, p) ==
    IF p >= mask.width * mask.height
    THEN r
    ELSE LET x == XOf(mask, p)
             y == YOf(mask, p)
             gradOffset == getImageOffset(r.dx, x, y)
         IN MergeLoop(src, tgt, mask,
                [dx |-> [r.dx EXCEPT !.data[gradOffset + 1] =
                            MergedDx(src, tgt, mask, gradOffset, x, y)],
                 dy |-> [r.dy EXCEPT !.data[gradOffset + 1] =
                            MergedDy(src, tgt, mask, gradOffset, x, y)]],
                p + 1)

copySourceGradientsToTarget(src, tgt, mask) ==
    MergeLoop(src, tgt, mask, NewGradient(tgt.dx.width, tgt.dx.height), 0)

\* The gradient pairs the compositor is called with, one sample larger per
\* axis than the mask: every component of every sample is a value of its own.
GradientOf(base) ==
    [dx |-> [width |-> GW + 1, height |-> GH + 1,
             data |-> [k \in 1..((GW + 1) * (GH + 1)) |-> base + k]],
     dy |-> [width |-> GW + 1, height |-> GH + 1,
             data |-> [k \in 1..((GW + 1) * (GH + 1)) |-> -(base + k)]]]

\* The masks: every field of two levels, for the pairs of levels of
\* MaskLevels (in tenths: 0 and 1, and 0.5 and 0.6).
MaskLevels == {<<0, 10>>, <<5, 6>>}
Masks == {[width |-> GW, height |-> GH,
           data |-> [k \in 1..(GW * GH) |-> lv[b[k]]]] :
             lv \in MaskLevels, b \in [1..(GW * GH) -> {1, 2}]}

StartMerge ==
    /\ source = GradientOf(100)
    /\ target = GradientOf(500)
    /\ source_mask \in Masks
    /\ merged = NewGradient(0, 0)
    /\ cphase = "call"

\* merged = copySourceGradientsToTarget(source, target, source_mask)
CallCopySourceGradients ==
    /\ cphase = "call"
    /\ merged' = copySourceGradientsToTarget(source, target, source_mask)
    /\ cphase' = "done"
    /\ UNCHANGED <<source, target, source_mask, notC>>

NextMerge ==
    \/ CallCopySourceGradients

IdleMerge ==
    /\ source = NewGradient(0, 0)
    /\ target = NewGradient(0, 0)
    /\ source_mask = NewImage(0, 0)
    /\ merged = NewGradient(0, 0)
    /\ cphase = "off"

\* --------------------------------------------------------- float arithmetic

\* A float is a sign s, a significand m of MantissaBits bits (or 0) and an
\* exponent e, standing for s * m * 2^e; every operation gives the exact result
\* rounded to the nearest such number, ties to the even significand. The
\* exponent is not bounded (no overflow to infinity, no gradual underflow).
\* A division by zero gives a value that is not a number of this form.
Pow2(n) == IF n <= 0 THEN 1 ELSE 2 ^ n

RECURSIVE BitLen(_)
BitLen(n) == IF n = 0 THEN 0 ELSE 1 + BitLen(n \div 2)

FZero == [k |-> "num", s |-> 1, m |-> 0, e |-> 0]
FNaN == [k |-> "nan", s |-> 1, m |-> 0, e |-> 0]

\* The float nearest to s * n * 2^e, for a natural n.
Round(s, n, e) ==
    IF n = 0 THEN FZero
    ELSE LET bits == BitLen(n)
         IN IF bits <= MantissaBits
            THEN [k |-> "num", s |-> s, m |-> n * Pow2(MantissaBits - bits),
                  e |-> e - (MantissaBits - bits)]
            ELSE LET sh == bits - MantissaBits
                     q == n \div Pow2(sh)
                     r == n % Pow2(sh)
                     half == Pow2(sh - 1)
                     up == r > half \/ (r = half /\ q % 2 = 1)
                     m1 == IF up THEN q + 1 ELSE q
                 IN IF m1 = Pow2(MantissaBits)
                    THEN [k |-> "num", s |-> s, m |-> Pow2(MantissaBits - 1),
                          e |-> e + sh + 1]
                    ELSE [k |-> "num", s |-> s, m |-> m1, e |-> e + sh]

\* The float of an integer, and of a decimal literal given in units of 2^-24.
FInt(i) == Round(IF i < 0 THEN -1 ELSE 1, IF i < 0 THEN -i ELSE i, 0)
FLit(q24) == Round(IF q24 < 0 THEN -1 ELSE 1, IF q24 < 0 THEN -q24 ELSE q24, -24)

FNeg(a) == IF a.k = "nan" \/ a.m = 0 THEN a ELSE [a EXCEPT !.s = -a.s]

\* a * b
FMul(a, b) ==
    IF a.k = "nan" \/ b.k = "nan" THEN FNaN
    ELSE Round(a.s * b.s, a.m * b.m, a.e + b.e)

\* a + b: exact when the exponents are within MantissaBits + 2 of each other;
\* beyond that the smaller operand is below a quarter of the last place of
\* the larger one, and the sum rounds to the larger.
FAdd(a, b) ==
    IF a.k = "nan" \/ b.k = "nan" THEN FNaN
    ELSE IF a.m = 0 THEN b
    ELSE IF b.m = 0 THEN a
    ELSE LET hi == IF a.e >= b.e THEN a ELSE b
             lo == IF a.e >= b.e THEN b ELSE a
             gap == hi.e - lo.e
         IN IF gap > MantissaBits + 2
            THEN hi
            ELSE LET n == hi.s * hi.m * Pow2(gap) + lo.s * lo.m
                 IN Round(IF n < 0 THEN -1 ELSE 1, IF n < 0 THEN -n ELSE n, lo.e)

FSub(a, b) == FAdd(a, FNeg(b))

\* a / b: the quotient to MantissaBits + 2 bits and a sticky last bit.
FDivide(a, b) ==
    IF a.k = "nan" \/ b.k = "nan" \/ b.m = 0 THEN FNaN
    ELSE IF a.m = 0 THEN FZero
    ELSE LET num == a.m * Pow2(MantissaBits + 2)
             q == num \div b.m
             sticky == IF num % b.m # 0 /\ q % 2 = 0 THEN 1 ELSE 0
         IN Round(a.s * b.s, q + sticky, a.e - b.e - (MantissaBits + 2))

\* exp(-k/8) for the arguments the calls of the filter reach, in units of
\* 2^-24.
ExpTable ==
    [k \in {0, 1, 2, 4, 5, 8, 16, 20, 32} |->
        CASE k = 0 -> 16777216
          [] k = 1 -> 14805841
          [] k = 2 -> 13066109
          [] k = 4 -> 10175896
          [] k = 5 -> 8980197
          [] k = 8 -> 6171993
          [] k = 16 -> 2270549
          [] k = 20 -> 1377158
          [] k = 32 -> 307285]

\* exp(a) for a float a = -k/8.
FExp(a) ==
    IF a.k = "nan" THEN FNaN
    ELSE IF a.m = 0 THEN FInt(1)
    ELSE LET eighths == IF a.e + 3 >= 0
                        THEN a.m * Pow2(a.e + 3)
                        ELSE a.m \div Pow2(-(a.e + 3))
         IN FLit(ExpTable[eighths])

\* ---------------------------------------------------------- bilateralFilter

\* spatialWeights[i + radius][j + radius] =
\*     exp(-(i * i + j * j) / (2.0f * space_sigma * space_sigma));
SpatialWeight(i, j, sigma) ==
    FExp(FDivide(FInt(-(i * i + j * j)), FMul(FMul(FInt(2), sigma), sigma)))

\* exp(-(val - n_val) * (val - n_val) / (2.0f * range_sigma * range_sigma))
RangeWeight(val, n_val, sigma) ==
    FExp(FDivide(FMul(FNeg(FSub(val, n_val)), FSub(val, n_val)),
                 FMul(FMul(FInt(2), sigma), sigma)))

\* The body of the kernel loops for the offset (dx, dy) at the pixel (x, y):
\* acc holds K, filteredValue and the neighbours accumulated so far. (And a
\* body that leaves a neighbour outside the field out of the weighted sum but
\* not out of the weight total.)
AccumulateDarkening(img, weights, sigma, radius, x, y, dx, dy, acc) ==
    LET nx == x + dx
        ny == y + dy
    IN IF nx < 0 \/ ny < 0 \/ nx >= img.width \/ ny >= img.height
       THEN [acc EXCEPT !.K = FAdd(acc.K, weights[dy + radius + 1][dx + radius + 1])]
       ELSE LET val == At(img, x, y)
                n_val == At(img, nx, ny)
                rangeWeight == RangeWeight(val, n_val, sigma)
                weight == FMul(weights[dy + radius + 1][dx + radius + 1], rangeWeight)
            IN [K |-> FAdd(acc.K, weight),
                filteredValue |-> FAdd(acc.filteredValue, FMul(weight, n_val)),
                taken |-> acc.taken \cup {<<nx, ny>>}]
Accumulate(img, weights, sigma, radius, x, y, dx, dy, acc) ==
    LET nx == x + dx
        ny == y + dy
    IN IF nx < 0 \/ ny < 0 \/ nx >= img.width \/ ny >= img.height
       THEN acc
       ELSE LET val == At(img, x, y)
                n_val == At(img, nx, ny)
                rangeWeight == RangeWeight(val, n_val, sigma)
                weight == FMul(weights[dy + radius + 1][dx + radius + 1], rangeWeight)
            IN [K |-> FAdd(acc.K, weight),
                filteredValue |-> FAdd(acc.filteredValue, FMul(weight, n_val)),
                taken |-> acc.taken \cup {<<nx, ny>>}]

\* The dy/dx loops from their step q on (dy the outer one).
RECURSIVE KernelLoop(_, _, _, _, _, _, _, _)
KernelLoop(img, weights, sigma, radius, x, y, q, acc) ==
    LET side == 2 * radius + 1
    IN IF q >= side * side
       THEN acc
       ELSE KernelLoop(img, weights, sigma, radius, x, y, q + 1,
                Accumulate(img, weights, sigma, radius, x, y,
                           (q % side) - radius, (q \div side) - radius, acc))

\* The fields the filter is called with: the flat fields of the values of
\* FlatValues (in units of 2^-24: 0, 1, 0.1, 0.3, -2.5 and 3), and fields of
\* two integer levels split along a column or a row.
FlatValues == {0, 16777216, 1677722, 5033165, -41943040, 50331648}
FlatField(v) ==
    [width |-> BW, height |-> BH, data |-> [p \in 1..(BW * BH) |-> FLit(v)]]
StepFields ==
    {[width |-> BW, height |-> BH,
      data |-> [p \in 1..(BW * BH) |->
                  IF (p - 1) % BW < c THEN FInt(lo) ELSE FInt(lo + d)]] :
        c \in 1..(BW - 1), lo \in {0, 1}, d \in {1, 2}}
    \cup
    {[width |-> BW, height |-> BH,
      data |-> [p \in 1..(BW * BH) |->
                  IF (p - 1) \div BW < c THEN FInt(lo) ELSE FInt(lo + d)]] :
        c \in 1..(BH - 1), lo \in {0, 1}, d \in {1, 2}}
FilterInputs == {FlatField(v) : v \in FlatValues} \cup StepFields
Sizes == {1, 2, 3, 5}
Sigmas == {FInt(1), FInt(2)}

StartFilter ==
    /\ H \in FilterInputs
    /\ size \in Sizes
    /\ space_sigma \in Sigmas
    /\ range_sigma \in Sigmas
    /\ spatialWeights = <<>>
    /\ filtered = NewImage(0, 0)
    /\ done = 0
    /\ K = FZero
    /\ filteredValue = FZero
    /\ taken = {}
    /\ bphase = "weights"

\* assert(size % 2 == 1) fails.
AssertFails ==
    /\ bphase = "weights"
    /\ size % 2 # 1
    /\ bphase' = "aborted"
    /\ UNCHANGED <<H, size, space_sigma, range_sigma, spatialWeights, filtered,
                   done, K, filteredValue, taken, notB>>

\* The table of spatial weights, and the empty output image.
PrecomputeWeights ==
    /\ bphase = "weights"
    /\ size % 2 = 1
    /\ LET radius == size \div 2
       IN spatialWeights' =
              [a \in 1..size |-> [b \in 1..size |->
                  SpatialWeight(a - 1 - radius, b - 1 - radius, space_sigma)]]
    /\ filtered' = [width |-> H.width, height |-> H.height,
                    data |-> [p \in 1..(H.width * H.height) |-> FZero]]
    /\ bphase' = "pixels"
    /\ UNCHANGED <<H, size, space_sigma, range_sigma, done, K, filteredValue,
                   taken, notB>>

\* One turn of the y/x loops: the kernel loops and
\* result.data[y * H.width + x] = filteredValue / K;
FilterPixel ==
    /\ bphase = "pixels"
    /\ done < H.width * H.height
    /\ LET x == XOf(H, done)
           y == YOf(H, done)
           acc == KernelLoop(H, spatialWeights, range_sigma, size \div 2, x, y, 0,
                             [K |-> FZero, filteredValue |-> FZero, taken |-> {}])
       IN /\ K' = acc.K
          /\ filteredValue' = acc.filteredValue
          /\ taken' = acc.taken
          /\ filtered' = [filtered EXCEPT !.data[y * H.width + x + 1] =
                              FDivide(acc.filteredValue, acc.K)]
    /\ done' = done + 1
    /\ UNCHANGED <<H, size, space_sigma, range_sigma, spatialWeights, bphase,
                   notB>>

\* return result;
ReturnFiltered ==
    /\ bphase = "pixels"
    /\ done >= H.width * H.height
    /\ bphase' = "done"
    /\ UNCHANGED <<H, size, space_sigma, range_sigma, spatialWeights, filtered,
                   done, K, filteredValue, taken, notB>>

NextFilter ==
    \/ AssertFails
    \/ PrecomputeWeights
    \/ FilterPixel
    \/ ReturnFiltered

IdleFilter ==
    /\ H = NewImage(0, 0)
    /\ size = 1
    /\ space_sigma = FZero
    /\ range_sigma = FZero
    /\ spatialWeights = <<>>
    /\ filtered = NewImage(0, 0)
    /\ done = 0
    /\ K = FZero
    /\ filteredValue = FZero
    /\ taken = {}
    /\ bphase = "off"

\* ---------------------------------------------------------- specifications

\* A call of solvePoisson.
InitPoisson ==
    EnterPoisson(FALSE) /\ IdleNormalize /\ IdleGradient /\ IdleMerge /\ IdleFilter
SpecPoisson == InitPoisson /\ [][NextPoisson]_vars

\* A call of solvePoisson that records the history variables.
InitPoissonTraced ==
    EnterPoisson(TRUE) /\ IdleNormalize /\ IdleGradient /\ IdleMerge /\ IdleFilter
SpecPoissonTraced == InitPoissonTraced /\ [][NextPoisson]_vars

\* A call of normalizeRGBImage, which calls getRGBImageMinMax.
InitNormalize ==
    StartNormalize /\ IdlePoisson /\ IdleGradient /\ IdleMerge /\ IdleFilter
SpecNormalize == InitNormalize /\ [][NextNormalize]_vars

\* getDivergence(getGradients(field)).
InitGradient ==
    StartGradient /\ IdlePoisson /\ IdleNormalize /\ IdleMerge /\ IdleFilter
SpecGradient == InitGradient /\ [][NextGradient]_vars

\* A call of copySourceGradientsToTarget.
InitMerge ==
    StartMerge /\ IdlePoisson /\ IdleNormalize /\ IdleGradient /\ IdleFilter
SpecMerge == InitMerge /\ [][NextMerge]_vars

\* A call of bilateralFilter.
InitFilter ==
    StartFilter /\ IdlePoisson /\ IdleNormalize /\ IdleGradient /\ IdleMerge
SpecFilter == InitFilter /\ [][NextFilter]_vars

\* ------------------------------------------------------------------ claims

\* The samples (as indices of data) on the outer border of a w x h field.
OuterBorder(w, h) ==
    {y * w + x + 1 : <<x, y>> \in
        {q \in (0..(w - 1)) \X (0..(h - 1)) :
            q[1] = 0 \/ q[2] = 0 \/ q[1] = w - 1 \/ q[2] = h - 1}}

\* C1: in solvePoisson every sample on the outer border of the field has, in
\* the current solution I at every moment of the loop and in the returned
\* field, exactly the value it has in the initial guess.
C1_BorderFixed ==
    \A k \in OuterBorder(initial_solution.width, initial_solution.height) :
        /\ I.data[k] = initial_solution.data[k]
        /\ phase = "done" => result.data[k] = initial_solution.data[k]

\* C1's case: the solver has run all its iterations and returned a field whose
\* interior differs from the guess while its border is the guess's.
C1_Witness ==
    /\ phase = "done"
    /\ num_iters = MaxIters
    /\ completed = 0..(MaxIters - 1)
    /\ result # initial_solution
    /\ \A k \in OuterBorder(initial_solution.width, initial_solution.height) :
           result.data[k] = initial_solution.data[k]

\* C2: an iteration of the solver loop runs only when every earlier iteration
\* has written all of I_next and swapped the buffers, and no statement of an
\* iteration reads a sample written by the same or a later iteration.
C2_IterationsIsolated ==
    \A t \in Threads :
        pc[t] # "idle" =>
            /\ \A j \in 0..(iter[t] - 1) : j \in completed
            /\ obs[t] < iter[t]

\* The single-pass transition of the solver: the border copied, the interior
\* 0.25 * (the four neighbours in cur - the divergence).
JacobiPass(cur, div) ==
    [cur EXCEPT !.data =
        [k \in 1..(cur.width * cur.height) |->
            LET x == (k - 1) % cur.width
                y == (k - 1) \div cur.width
            IN IF k \in OuterBorder(cur.width, cur.height)
               THEN cur.data[k]
               ELSE (cur.data[y * cur.width + (x + 1) + 1]
                     + cur.data[y * cur.width + (x - 1) + 1]
                     + cur.data[(y + 1) * cur.width + x + 1]
                     + cur.data[(y - 1) * cur.width + x + 1]
                     - div.data[y * div.width + x + 1]) \div 4]]

RECURSIVE JacobiPasses(_, _, _)
JacobiPasses(cur, div, n) ==
    IF n = 0 THEN cur ELSE JacobiPasses(JacobiPass(cur, div), div, n - 1)

\* C3: the field solvePoisson returns is the single-pass transition applied
\* num_iters times to the initial guess (the guess itself for num_iters = 0).
C3_ReturnsLastPass ==
    phase = "done" =>
        result = JacobiPasses(initial_solution, divergence_G, num_iters)

\* The channel values of a colour field, and its least and greatest.
Channels(img) == {img.data[k][c] : k \in 1..(img.width * img.height), c \in 1..3}
GlobalMin(img) == CHOOSE v \in Channels(img) : \A u \in Channels(img) : v <= u
GlobalMax(img) == CHOOSE v \in Channels(img) : \A u \in Channels(img) : v >= u

\* getRGBImageMinMax's loops run by one thread: the pixels in row-major order.
RECURSIVE SequentialMinMax(_, _, _)
SequentialMinMax(img, k, mm) ==
    IF k > img.width * img.height
    THEN mm
    ELSE SequentialMinMax(img, k + 1,
             <<IF MinRGB(img.data[k]) < mm[1] THEN MinRGB(img.data[k]) ELSE mm[1],
               IF MaxRGB(img.data[k]) > mm[2] THEN MaxRGB(img.data[k]) ELSE mm[2]>>)

MinMaxReturned == mphase \in {"normalize", "done"}

\* C4: whatever the interleaving of the threads running its rows,
\* getRGBImageMinMax returns the pair its sequential execution returns.
C4_Deterministic ==
    MinMaxReturned =>
        min_max = SequentialMinMax(image, 1, <<MinValInit, MaxValInit>>)

\* C5: the pair getRGBImageMinMax returns bounds every channel of every pixel:
\* min_val <= c <= max_val.
C5_Bounds ==
    MinMaxReturned =>
        \A c \in Channels(image) : min_max[1] <= c /\ c <= min_max[2]

\* C6: for a field all of whose channels have one value v, getRGBImageMinMax
\* returns min_val = max_val = v.
C6_Constant ==
    MinMaxReturned =>
        \A v \in Channels(image) : Channels(image) = {v} => min_max = <<v, v>>

\* C7: when the least and the greatest channel value of the field differ,
\* normalizeRGBImage maps every channel equal to the least to exactly 0 and
\* every channel equal to the greatest to exactly 1.
C7_MinToZeroMaxToOne ==
    (mphase = "done" /\ GlobalMin(image) # GlobalMax(image)) =>
        \A k \in 1..(image.width * image.height), c \in 1..3 :
            /\ image.data[k][c] = GlobalMin(image) =>
                   nresult.data[k][c] = [kind |-> "finite", num |-> 0, den |-> 1]
            /\ image.data[k][c] = GlobalMax(image) =>
                   nresult.data[k][c] = [kind |-> "finite", num |-> 1, den |-> 1]

\* C8: for a flat field, whose least and greatest channel value are equal,
\* every channel of the field normalizeRGBImage returns is a defined value,
\* neither NaN nor an infinity.
C8_FlatDefined ==
    (mphase = "done" /\ GlobalMin(image) = GlobalMax(image)) =>
        \A k \in 1..(image.width * image.height), c \in 1..3 :
            nresult.data[k][c].kind = "finite"

MaskAbove(x, y) == source_mask.data[y * source_mask.width + x + 1] > Half
CrossesX(x, y) ==
    \/ x > 0 /\ MaskAbove(x - 1, y) # MaskAbove(x, y)
    \/ x < source_mask.width - 1 /\ MaskAbove(x + 1, y) # MaskAbove(x, y)
CrossesY(x, y) ==
    \/ y > 0 /\ MaskAbove(x, y - 1) # MaskAbove(x, y)
    \/ y < source_mask.height - 1 /\ MaskAbove(x, y + 1) # MaskAbove(x, y)

\* C10: at every mask location the merged dx is 0 when the classification
\* mask > 0.5 differs from that of an existing left or right neighbour, and
\* otherwise the source dx where mask > 0.5 and the target dx where not; the
\* merged dy likewise with the neighbours above and below.
C10_MergedGradient ==
    cphase = "done" =>
        \A x \in 0..(source_mask.width - 1), y \in 0..(source_mask.height - 1) :
            LET k == y * merged.dx.width + x + 1
            IN /\ merged.dx.data[k] =
                      IF CrossesX(x, y) THEN 0
                      ELSE IF MaskAbove(x, y) THEN source.dx.data[k]
                      ELSE target.dx.data[k]
               /\ merged.dy.data[k] =
                      IF CrossesY(x, y) THEN 0
                      ELSE IF MaskAbove(x, y) THEN source.dy.data[k]
                      ELSE target.dy.data[k]

\* C10's case: a merged pair with a location of the source area that has both
\* horizontal neighbours, whose classification differs from the right one's
\* only: its dx is zeroed and its dy is the source's.
C10_Witness ==
    /\ cphase = "done"
    /\ \E x \in 1..(source_mask.width - 2), y \in 0..(source_mask.height - 1) :
           LET k == y * merged.dx.width + x + 1
           IN /\ MaskAbove(x, y)
              /\ MaskAbove(x - 1, y)
              /\ ~MaskAbove(x + 1, y)
              /\ ~CrossesY(x, y)
              /\ merged.dx.data[k] = 0
              /\ merged.dy.data[k] = source.dy.data[k]
              /\ merged.dy.data[k] # 0

\* The mask is entirely above the threshold: the source area is everything.
MaskAllSource ==
    \A k \in 1..(source_mask.width * source_mask.height) :
        source_mask.data[k] > Half

\* The locations of the gradient field the mask covers, as offsets into the
\* data of merged.dx, and all the locations of the field.
MaskLocations ==
    {y * merged.dx.width + x + 1 :
        x \in 0..(source_mask.width - 1), y \in 0..(source_mask.height - 1)}
GradientLocations == 1..(merged.dx.width * merged.dx.height)

FlatInput == \A p \in 1..(H.width * H.height) : H.data[p] = H.data[1]

\* The neighbours of (x, y) within the kernel that lie inside the field.
InField(x, y) ==
    {q \in (0..(H.width - 1)) \X (0..(H.height - 1)) :
        /\ q[1] - x >= -(size \div 2) /\ q[1] - x <= size \div 2
        /\ q[2] - y >= -(size \div 2) /\ q[2] - y <= size \div 2}

\* The float r is within c units of roundoff (2^-MantissaBits, relative) of v.
WithinRoundoff(r, v, c) ==
    /\ r.k = "num"
    /\ IF v.m = 0 \/ r.m = 0
       THEN r.m = v.m
       ELSE LET low == IF r.e < v.e THEN r.e ELSE v.e
                rn == r.s * r.m * Pow2(r.e - low)
                vn == v.s * v.m * Pow2(v.e - low)
                d == IF rn >= vn THEN rn - vn ELSE vn - rn
            IN d * Pow2(MantissaBits) <= c * v.m * Pow2(v.e - low)

\* The weight total of the pixel the loops did last is a positive number, and
\* the neighbours accumulated for it are those inside the field.
KernelCropped ==
    done > 0 =>
        /\ K.k = "num" /\ K.s = 1 /\ K.m > 0
        /\ taken = InField(XOf(H, done - 1), YOf(H, done - 1))

====
